---- MODULE Spec2Model ----
(***************************************************************************)
(* A model of src/index.js: the row-to-structure transformer               *)
(* transformRawDataToProgram and the /process handler that calls it once    *)
(* per sheet of the exported workbook.                                      *)
(*                                                                          *)
(* A JavaScript string is the sequence of its UTF-16 code units, numbers of *)
(* 0..65535.  A cell is [s |-> <string>] or [n |-> <integer>] (sheet_to_json *)
(* yields strings and numbers).  A row record is a function from the column *)
(* labels it has to cells.  An object reference (currentExercise) is the    *)
(* index of the object in session.exercises, 0 standing for null.  The      *)
(* output file holds a sequence of bytes, numbers of 0..255: the UTF-8      *)
(* encoding of JSON.stringify(finalProgram, null, 2), the part of it that a *)
(* failed write has left, or what the file held when the server started.    *)
(***************************************************************************)
EXTENDS Integers, Sequences, FiniteSets, TLC

VARIABLES
    pc,               \* position of the /process handler and of the transformer
    response,         \* the response sent: status (0 while none is sent) and body
    file,             \* parsed_program.json of line 120: <<>> if absent, else <<bytes>>
    workbook,         \* the parsed workbook: SheetNames and Sheets
    sheetIdx,         \* position of "for (const sheetName of workbook.SheetNames)"
    allWeeks,         \* allWeeks of the handler
    rawData,          \* argument of transformRawDataToProgram
    sheetName,        \* argument of transformRawDataToProgram
    sessions,         \* sessions of transformRawDataToProgram
    sessionIdx,       \* position of "for (const sessionName of sessionColumns)"
    session,          \* session of the column being walked
    currentExercise,  \* index into session.exercises, 0 = null
    rowIdx,           \* position of "for (const row of rawData)"
    cellValue,        \* cellValue of the last row that had the key
    isSet,            \* isSet of the last row that had the key
    programForSheet,  \* the value returned by transformRawDataToProgram
    threw,            \* TRUE once transformRawDataToProgram has thrown
    phase,            \* per concurrent request: "new", "await" (export pending),
                      \* "write" (inside writeFileSync), "done" (answered), "rejected"
                      \* (thrown out of the handler)
    sent,             \* per concurrent request: the response sent
    fileResponse,     \* per concurrent request: <<>>, or <<workbook>> once exported
    sentOrder,        \* the concurrent requests answered, in the order of their responses
    cwd,              \* the directory the server runs in: "dirname" (that of index.js) or
                      \* "elsewhere"; "unobserved" until a download has depended on it
    dirnameFile,      \* parsed_program.json in the directory of index.js where the server
                      \* runs elsewhere: <<>> if absent, else <<bytes>>; <<>> until a
                      \* download has depended on it
    download,         \* GET /download: "idle", or "open" from the stat of the file to the
                      \* end of its stream
    statSize,         \* the size in bytes the stat of the download found
    streamed,         \* the bytes the stream of the download has read so far
    downloaded,       \* <<what the last GET /download delivered>>; <<>> before the first
                      \* and while one is open
    writing           \* the main thread: "no", or inside the writeFileSync of line 120 of
                      \* the request in phase "write": "opened" once the file is opened and
                      \* so emptied, "overlapped" once a thread of the pool has run an
                      \* operation of the download meanwhile

vars == <<pc, response, file, workbook, sheetIdx, allWeeks, rawData, sheetName,
          sessions, sessionIdx, session, currentExercise, rowIdx, cellValue,
          isSet, programForSheet, threw,
          phase, sent, fileResponse, sentOrder, cwd, dirnameFile, download, statSize,
          streamed, downloaded, writing>>

\* the requests of the concurrent server, and the download
serverVars == <<phase, sent, fileResponse, sentOrder, cwd, dirnameFile, download, statSize,
                streamed, downloaded, writing>>

\* the download
downloadVars == <<dirnameFile, download, statSize, streamed, downloaded>>

handlerVars == <<response, file, workbook, sheetIdx, allWeeks>>

----------------------------------------------------------------------------
(* Bounds of the model *)

MaxRows == 4      \* rows of a single-column sheet
MaxStrLen == 3    \* characters of an enumerated cell string
MaxSheets == 3    \* sheets of a multi-sheet workbook
NumRequests == 2  \* concurrent /process requests

Requests == 1..NumRequests

----------------------------------------------------------------------------
(* JavaScript strings and the built-ins the transformer uses *)

\* the printable characters of ASCII but the grave accent, which a string of
\* this notation cannot hold: U+0020 to U+005F and U+0061 to U+007E, in order
AsciiUpper ==
    <<" ", "!", "\"", "#", "$", "%", "&", "'", "(", ")", "*", "+", ",", "-", ".", "/",
      "0", "1", "2", "3", "4", "5", "6", "7", "8", "9", ":", ";", "<", "=", ">", "?",
      "@", "A", "B", "C", "D", "E", "F", "G", "H", "I", "J", "K", "L", "M", "N", "O",
      "P", "Q", "R", "S", "T", "U", "V", "W", "X", "Y", "Z", "[", "\\", "]", "^", "_">>

AsciiLower ==
    <<"a", "b", "c", "d", "e", "f", "g", "h", "i", "j", "k", "l", "m", "n", "o",
      "p", "q", "r", "s", "t", "u", "v", "w", "x", "y", "z", "{", "|", "}", "~">>

\* the code unit of each of these characters
CodeUnits ==
    [ch \in {AsciiUpper[i] : i \in DOMAIN AsciiUpper} \cup {AsciiLower[i] : i \in DOMAIN AsciiLower} |->
        IF \E i \in DOMAIN AsciiUpper : AsciiUpper[i] = ch
        THEN 31 + (CHOOSE i \in DOMAIN AsciiUpper : AsciiUpper[i] = ch)
        ELSE 96 + (CHOOSE i \in DOMAIN AsciiLower : AsciiLower[i] = ch)]

codeUnit(ch) == CodeUnits[ch]

\* a string literal of printable ASCII characters as the sequence of its code
\* units; any other code unit is written as its number
js(chars) == [i \in DOMAIN chars |-> codeUnit(chars[i])]

\* the line terminators of ECMAScript: LF, CR, LINE SEPARATOR (U+2028),
\* PARAGRAPH SEPARATOR (U+2029)
LineTerminator == {10, 13, 8232, 8233}

\* what String.prototype.trim removes: the white space of ECMAScript, TAB, VT,
\* FF, SPACE, NBSP (U+00A0), ZWNBSP (U+FEFF) and the space separators of
\* Unicode (U+1680, U+2000 to U+200A, U+202F, U+205F, U+3000), and the line
\* terminators
WhiteSpace ==
    ({9, 11, 12, 32, 160, 65279, 5760, 8239, 8287, 12288} \cup (8192..8202))
        \cup LineTerminator

\* \d: the digits 0 to 9 of ASCII, U+0030 to U+0039
Digit == 48..57

DigitChar == js(<<"0", "1", "2", "3", "4", "5", "6", "7", "8", "9">>)

RECURSIVE NatToString(_)
NatToString(n) ==
    IF n < 10 THEN <<DigitChar[n + 1]>>
    ELSE NatToString(n \div 10) \o <<DigitChar[(n % 10) + 1]>>

\* String(v): a string is itself, an integer is its decimal numeral
String(cell) ==
    IF "s" \in DOMAIN cell THEN cell.s
    ELSE IF cell.n < 0 THEN js(<<"-">>) \o NatToString(0 - cell.n)
    ELSE NatToString(cell.n)

RECURSIVE trimStart(_)
trimStart(str) ==
    IF Len(str) > 0 /\ Head(str) \in WhiteSpace THEN trimStart(Tail(str)) ELSE str

RECURSIVE trimEnd(_)
trimEnd(str) ==
    IF Len(str) > 0 /\ str[Len(str)] \in WhiteSpace
    THEN trimEnd(SubSeq(str, 1, Len(str) - 1))
    ELSE str

\* String.prototype.trim
trim(str) == trimEnd(trimStart(str))

\* a search that looks at the start of the string only
includesAtStart(str, sub) == Len(sub) <= Len(str) /\ SubSeq(str, 1, Len(sub)) = sub

\* String.prototype.includes
includes(str, sub) ==
    \E i \in 0..(Len(str) - Len(sub)) : SubSeq(str, i + 1, i + Len(sub)) = sub

\* the pattern without its anchor
testAnyDigit(str) == \E i \in DOMAIN str : str[i] \in Digit

\* /^\d/.test(str)
testLeadingDigit(str) == Len(str) > 0 /\ Head(str) \in Digit

\* a test that also takes the empty text for a set
isSetOfOrEmpty(str) == Len(str) = 0 \/ includes(str, js(<<"%">>)) \/ testLeadingDigit(str)

\* line 35: cellValue.includes('%') || /^\d/.test(cellValue)
isSetOf(str) == includes(str, js(<<"%">>)) \/ testLeadingDigit(str)

\* line 31: String(row[sessionName]).trim()
cellValueOf(row, key) == trim(String(row[key]))

----------------------------------------------------------------------------
(* Row records *)

\* line 14
sessionColumns == <<"אימון 1", "אימון 2", "אימון 3">>

\* row.hasOwnProperty resolves to Object.prototype.hasOwnProperty unless the
\* row has an own column of that name, whose cell is then called as a function
ownHasOwnProperty(row) == "hasOwnProperty" \in DOMAIN row

hasOwnProperty(row, key) == key \in DOMAIN row

\* rawData.some(row => row.hasOwnProperty(key)): "true", "false", or "throw"
\* when a row whose hasOwnProperty is a cell is reached before a row with key
RECURSIVE some(_, _)
some(rows, key) ==
    IF Len(rows) = 0 THEN "false"
    ELSE IF ownHasOwnProperty(Head(rows)) THEN "throw"
    ELSE IF hasOwnProperty(Head(rows), key) THEN "true"
    ELSE some(Tail(rows), key)

----------------------------------------------------------------------------
(* The inputs: workbooks as xlsx.read and sheet_to_json deliver them *)

Alphabet == {codeUnit(c) : c \in {" ", "%", "5", "a"}}

RECURSIVE StrUpTo(_)
StrUpTo(n) ==
    IF n = 0 THEN {<<>>}
    ELSE LET S == StrUpTo(n - 1) IN S \cup {Append(str, c) : str \in S, c \in Alphabet}

SeqUpTo(S, n) == UNION {[1..k -> S] : k \in 0..n}

TitleA == [s |-> js(<<"a">>)]
TitleB == [s |-> js(<<"b", " ">>)]
SetA == [s |-> js(<<"5">>)]
SetB == [s |-> js(<<" ", "a", "%">>)]

RichCells ==
    {[s |-> str] : str \in StrUpTo(MaxStrLen)}
        \cup {[s |-> js(<<" ", "5", "a", " ">>)], [s |-> js(<<"a", "5", " ">>)], [s |-> <<9, 37>>]}
        \cup {[s |-> <<13, 53>>], [s |-> <<53, 13>>], [s |-> <<13, 10, 53>>],
              [s |-> <<160, 53>>], [s |-> <<12, 37>>], [s |-> <<11, 97>>],
              [s |-> <<97, 13, 53, 8195>>], [s |-> <<65279, 8232>>]}
        \cup {[s |-> <<55296>>], [s |-> <<97, 57343, 98>>], [s |-> <<55357, 56832>>],
              [s |-> <<1505, 1511, 1493, 1493, 1488, 1496, 32, 56, 48, 37>>],
              [s |-> <<97, 34, 92, 8, 1, 98>>], [s |-> <<8364, 53>>]}
        \cup {[n |-> k] : k \in {0 - 7, 0, 3, 12}}

\* a row with no session column holds some other column
NotesRow == ("notes" :> TitleA)

\* single-column sheets of up to MaxRows rows
DeepRows(key) == {NotesRow} \cup {(key :> c) : c \in {TitleA, TitleB, SetA, SetB}}

DeepSheets == SeqUpTo(DeepRows(sessionColumns[1]), MaxRows)

\* two-row sheets over all session columns, and rows with a hasOwnProperty column
WideRows ==
    UNION {[D -> {TitleA, SetA}] : D \in (SUBSET {sessionColumns[k] : k \in DOMAIN sessionColumns}) \ {{}}}
        \cup {NotesRow,
              ("hasOwnProperty" :> TitleA),
              (sessionColumns[1] :> TitleA) @@ ("hasOwnProperty" :> SetA),
              (sessionColumns[2] :> SetA) @@ ("hasOwnProperty" :> TitleA)}

WideSheets == {<<r1, r2>> : r1 \in WideRows, r2 \in WideRows}

\* sheets that put every enumerated cell after nothing, after a title, and
\* between a title with a set and a further set
CellSheets ==
    {<<(sessionColumns[1] :> c)>> : c \in RichCells}
        \cup {<<(sessionColumns[1] :> TitleA), (sessionColumns[1] :> c)>> : c \in RichCells}
        \cup {<<(sessionColumns[1] :> TitleA), (sessionColumns[1] :> SetB),
                (sessionColumns[1] :> c), (sessionColumns[1] :> SetA)>> : c \in RichCells}

Name1 == js(<<"w", "1">>)
Name2 == js(<<" ", "w", "2", " ">>)
Name3 == <<>>
SheetNameSet == {Name1, Name2, Name3}

SmallSheets ==
    {<<>>,
     <<(sessionColumns[1] :> TitleA)>>,
     <<(sessionColumns[2] :> SetA)>>,
     <<("hasOwnProperty" :> TitleA)>>,
     <<(sessionColumns[3] :> TitleB), (sessionColumns[3] :> SetB)>>}

Injective(seq) == \A i, j \in DOMAIN seq : seq[i] = seq[j] => i = j

Book(names, sheets) == [SheetNames |-> names, Sheets |-> sheets]

SingleSheetBooks ==
    {Book(<<Name1>>, (Name1 :> rows)) : rows \in DeepSheets \cup WideSheets \cup CellSheets}

MultiSheetBooks ==
    UNION {{Book(names, sheets) : sheets \in [{names[i] : i \in DOMAIN names} -> SmallSheets]}
             : names \in {q \in SeqUpTo(SheetNameSet, MaxSheets) : Injective(q)}}

Workbooks == SingleSheetBooks \cup MultiSheetBooks

\* the strings a form field sheetUrl holds
Urls == {<<>>, js(<<"x">>), js(<<"/", "d", "/", "x">>), js(<<"/", "d", "/", "/">>),
         js(<<"/", "d", "/", "x", "/">>), js(<<"x", "/", "d", "/", "x", "y", "/", "e">>),
         <<47, 100, 47, 10, 47>>, <<47, 100, 47, 97, 13, 47>>,
         <<47, 100, 47, 8232, 47, 100, 47, 120, 47>>,
         <<10, 47, 100, 47, 47, 47>>}

\* req.body.sheetUrl as express.urlencoded({ extended: true }) of line 73
\* delivers it: undefined without the field, a string for sheetUrl=...,
\* an array for sheetUrl[]=..., an object for sheetUrl[a]=...
SheetUrls ==
    {[undefined |-> TRUE]}
        \cup {[s |-> url] : url \in Urls}
        \cup {[array |-> <<url>>] : url \in {<<>>, js(<<"/", "d", "/", "x", "/">>)}}
        \cup {[object |-> ("a" :> js(<<"/", "d", "/", "x", "/">>))]}

\* line 78: !sheetUrl, true of undefined and of the empty string
falsy(v) == "undefined" \in DOMAIN v \/ ("s" \in DOMAIN v /\ Len(v.s) = 0)

\* line 83: only a string has a match method; sheetUrl.match of an array or
\* an object is undefined and the call throws a TypeError
hasMatch(v) == "s" \in DOMAIN v

\* sheetUrl.match(/\/d\/(.+?)\//) is not null: '/d/', then one or more
\* characters none of which is a line terminator, then '/'
matches(url) ==
    \E i \in 1..Len(url) : \E j \in (i + 4)..Len(url) :
        /\ SubSeq(url, i, i + 2) = js(<<"/", "d", "/">>)
        /\ url[j] = codeUnit("/")
        /\ \A k \in (i + 3)..(j - 1) : url[k] \notin LineTerminator

----------------------------------------------------------------------------
(* Values before assignment, and responses *)

NoSession == [session_number |-> "", exercises |-> <<>>]
NoProgram == [weeks |-> <<>>]
NoWorkbook == [SheetNames |-> <<>>, Sheets |-> <<>>]
NoResponse == [status |-> 0, body |-> ""]

\* res.status(code).send(text); res.send(text) sends status 200
send(code, text) == [status |-> code, body |-> text]

transformerVars == <<rawData, sheetName, sessions, sessionIdx, session,
                     currentExercise, rowIdx, cellValue, isSet, programForSheet, threw>>

----------------------------------------------------------------------------
(* Lines 119-120: JSON.stringify(finalProgram, null, 2) and the bytes that   *)
(* fs.writeFileSync(outputFileName, jsonContent, 'utf8') puts in the file.   *)
(* A text is a string: a sequence of code units.                              *)

HexDigit == js(<<"0", "1", "2", "3", "4", "5", "6", "7", "8", "9", "a", "b", "c", "d", "e", "f">>)

\* UnicodeEscape: \u and the four lower-case hexadecimal digits of the code unit
UnicodeEscape(c) ==
    js(<<"\\", "u">>) \o <<HexDigit[(c \div 4096) + 1], HexDigit[((c \div 256) % 16) + 1],
                           HexDigit[((c \div 16) % 16) + 1], HexDigit[(c % 16) + 1]>>

\* the surrogate code units, U+D800 to U+DBFF and U+DC00 to U+DFFF
LeadingSurrogate == 55296..56319
TrailingSurrogate == 56320..57343

\* the code unit at i is half of a surrogate pair: a leading surrogate with a
\* trailing one after it, or a trailing surrogate with a leading one before it
inPair(str, i) ==
    \/ str[i] \in LeadingSurrogate /\ i < Len(str) /\ str[i + 1] \in TrailingSurrogate
    \/ str[i] \in TrailingSurrogate /\ i > 1 /\ str[i - 1] \in LeadingSurrogate

\* QuoteJSONString, one code point that is one code unit: the short escapes
\* of ", \, BS, TAB, LF, FF, CR; \uxxxx for the other control characters and
\* for a surrogate that stands alone; every other code unit as it is
escapeChar(c) ==
    IF c = codeUnit("\"") THEN js(<<"\\", "\"">>)
    ELSE IF c = codeUnit("\\") THEN js(<<"\\", "\\">>)
    ELSE IF c = 8 THEN js(<<"\\", "b">>)
    ELSE IF c = 9 THEN js(<<"\\", "t">>)
    ELSE IF c = 10 THEN js(<<"\\", "n">>)
    ELSE IF c = 12 THEN js(<<"\\", "f">>)
    ELSE IF c = 13 THEN js(<<"\\", "r">>)
    ELSE IF c < 32 \/ c \in LeadingSurrogate \/ c \in TrailingSurrogate THEN UnicodeEscape(c)
    ELSE <<c>>

\* QuoteJSONString from the code unit at i on: the two units of a surrogate
\* pair are one code point and stay as they are
RECURSIVE escapeFrom(_, _)
escapeFrom(str, i) ==
    IF i > Len(str) THEN <<>>
    ELSE (IF inPair(str, i) THEN <<str[i]>> ELSE escapeChar(str[i])) \o escapeFrom(str, i + 1)

escape(str) == escapeFrom(str, 1)

\* a string value or a property name, quoted
quote(str) == js(<<"\"">>) \o escape(str) \o js(<<"\"">>)

\* a line break and the indentation of depth n
newline(n) == <<10>> \o [i \in 1..n |-> codeUnit(" ")]

RECURSIVE join(_, _)
join(texts, sep) ==
    IF Len(texts) = 0 THEN <<>>
    ELSE IF Len(texts) = 1 THEN texts[1]
    ELSE texts[1] \o sep \o join(Tail(texts), sep)

\* an array whose elements have the given texts, itself at depth n
arrayText(texts, n) ==
    IF Len(texts) = 0 THEN js(<<"[", "]">>)
    ELSE js(<<"[">>) \o newline(n + 2) \o join(texts, js(<<",">>) \o newline(n + 2))
             \o newline(n) \o js(<<"]">>)

\* an object of two properties in the order of their definition, at depth n
objectText(key1, text1, key2, text2, n) ==
    js(<<"{">>) \o newline(n + 2) \o quote(key1) \o js(<<":", " ">>) \o text1
        \o js(<<",">>) \o newline(n + 2) \o quote(key2) \o js(<<":", " ">>) \o text2
        \o newline(n) \o js(<<"}">>)

exerciseText(e, n) ==
    objectText(js(<<"t", "i", "t", "l", "e">>), quote(e.title),
               js(<<"s", "e", "t", "s">>), arrayText([i \in DOMAIN e.sets |-> quote(e.sets[i])], n + 2), n)

\* a column label is one string where it is the key of a row record; in the
\* text it is the sequence of its code units (U+05D0 alef, U+05D9 yod, U+05DE
\* mem, U+05D5 vav, U+05DF final nun, a space and a digit)
sessionColumnChars ==
    <<<<1488, 1497, 1502, 1493, 1503, 32, 49>>,
      <<1488, 1497, 1502, 1493, 1503, 32, 50>>,
      <<1488, 1497, 1502, 1493, 1503, 32, 51>>>>

charsOf(label) == sessionColumnChars[CHOOSE k \in DOMAIN sessionColumns : sessionColumns[k] = label]

sessionText(ses, n) ==
    objectText(js(<<"s", "e", "s", "s", "i", "o", "n", "_", "n", "u", "m", "b", "e", "r">>),
               quote(charsOf(ses.session_number)),
               js(<<"e", "x", "e", "r", "c", "i", "s", "e", "s">>),
               arrayText([i \in DOMAIN ses.exercises |-> exerciseText(ses.exercises[i], n + 4)],
                         n + 2), n)

weekText(week, n) ==
    objectText(js(<<"w", "e", "e", "k", "_", "d", "a", "t", "e">>), quote(week.week_date),
               js(<<"s", "e", "s", "s", "i", "o", "n", "s">>),
               arrayText([i \in DOMAIN week.sessions |-> sessionText(week.sessions[i], n + 4)],
                         n + 2), n)

\* line 119: JSON.stringify(finalProgram, null, 2)
JSONstringify(program) ==
    js(<<"{">>) \o newline(2) \o quote(js(<<"w", "e", "e", "k", "s">>)) \o js(<<":", " ">>)
        \o arrayText([i \in DOMAIN program.weeks |-> weekText(program.weeks[i], 4)], 2)
        \o newline(0) \o js(<<"}">>)

\* the UTF-8 bytes of the code unit at i: one byte below U+0080, two below
\* U+0800, else three; the two units of a surrogate pair give the four bytes
\* of their code point, at the leading one; a surrogate that stands alone is
\* written as U+FFFD
utf8At(str, i) ==
    LET c == str[i] IN
    IF c < 128 THEN <<c>>
    ELSE IF c < 2048 THEN <<192 + (c \div 64), 128 + (c % 64)>>
    ELSE IF c \in LeadingSurrogate /\ inPair(str, i)
    THEN LET cp == 65536 + ((c - 55296) * 1024) + (str[i + 1] - 56320)
         IN <<240 + (cp \div 262144), 128 + ((cp \div 4096) % 64),
              128 + ((cp \div 64) % 64), 128 + (cp % 64)>>
    ELSE IF c \in TrailingSurrogate /\ inPair(str, i) THEN <<>>
    ELSE IF c \in LeadingSurrogate \/ c \in TrailingSurrogate THEN <<239, 191, 189>>
    ELSE <<224 + (c \div 4096), 128 + ((c \div 64) % 64), 128 + (c % 64)>>

\* the bytes of the code units i to j: a run of units below U+0080 is its own
\* bytes, any other run is encoded by halves
RECURSIVE utf8Range(_, _, _)
utf8Range(str, i, j) ==
    IF i > j THEN <<>>
    ELSE IF \A k \in i..j : str[k] < 128 THEN SubSeq(str, i, j)
    ELSE IF i = j THEN utf8At(str, i)
    ELSE utf8Range(str, i, (i + j) \div 2) \o utf8Range(str, ((i + j) \div 2) + 1, j)

\* the encoding 'utf8' of line 120: the bytes of a string
utf8(str) == utf8Range(str, 1, Len(str))

\* the number of bytes of a string in the file
byteLength(str) == Len(utf8(str))

\* line 120, fs.writeFileSync(outputFileName, data, 'utf8'), in a file system
\* that lets the file be opened or not (EISDIR, EACCES) and lets limit bytes
\* be written to it (the file size limit of the process, the space left on
\* the device): the open truncates the file; a write that cannot put all the
\* bytes of data throws (EFBIG, ENOSPC) and leaves the first limit bytes,
\* which may end inside a character
writeFileSync(old, data, opens, limit) ==
    IF ~opens THEN [threw |-> TRUE, file |-> old]
    ELSE LET bytes == utf8(data) IN
         IF limit < Len(bytes) THEN [threw |-> TRUE, file |-> <<SubSeq(bytes, 1, limit)>>]
         ELSE [threw |-> FALSE, file |-> <<bytes>>]

\* the limits enumerated for a write: no byte, a few bytes, a number of bytes
\* that ends inside a character of some texts, and more bytes than any text has
WriteLimits == {0, 7, 106, 2^30}

\* the program an earlier run of the server wrote
EarlierProgram ==
    [weeks |-> <<[week_date |-> js(<<"w", "0">>),
                  sessions |-> <<[session_number |-> sessionColumns[2],
                                  exercises |-> <<[title |-> js(<<"a">>),
                                                   sets |-> <<js(<<"5">>)>>]>>]>>]>>]

\* what parsed_program.json holds when the server starts (no line removes it):
\* nothing in a clean directory, the file an earlier run wrote, or the part a
\* failed write of an earlier run left
FilesAtStart ==
    {<<>>,
     <<utf8(JSONstringify(EarlierProgram))>>,
     <<SubSeq(utf8(JSONstringify(EarlierProgram)), 1, 45)>>}

----------------------------------------------------------------------------
(* The state when the server listens: no request yet *)

Init ==
    /\ pc = "idle"
    /\ response = NoResponse
    /\ file \in FilesAtStart
    /\ workbook = NoWorkbook
    /\ sheetIdx = 0
    /\ allWeeks = <<>>
    /\ rawData = <<>>
    /\ sheetName = <<>>
    /\ sessions = <<>>
    /\ sessionIdx = 0
    /\ session = NoSession
    /\ currentExercise = 0
    /\ rowIdx = 0
    /\ cellValue = <<>>
    /\ isSet = FALSE
    /\ programForSheet = NoProgram
    /\ threw = FALSE
    /\ phase = [p \in Requests |-> "new"]
    /\ sent = [p \in Requests |-> NoResponse]
    /\ fileResponse = [p \in Requests |-> <<>>]
    /\ sentOrder = <<>>
    /\ cwd = "unobserved"
    /\ dirnameFile = <<>>
    /\ download = "idle"
    /\ statSize = 0
    /\ streamed = <<>>
    /\ downloaded = <<>>
    /\ writing = "no"

----------------------------------------------------------------------------
(* app.post('/process'), lines 76-136 *)

\* lines 77-80: no sheetUrl
ProcessMissingUrl ==
    /\ pc = "idle"
    /\ \E v \in SheetUrls : falsy(v)
    /\ pc' = "done"
    /\ response' = send(400, "Google Sheet URL is required.")
    /\ UNCHANGED <<file, workbook, sheetIdx, allWeeks>>
    /\ UNCHANGED transformerVars
    /\ UNCHANGED serverVars

\* lines 83-86: the URL has no /d/<id>/ segment
ProcessInvalidUrl ==
    /\ pc = "idle"
    /\ \E v \in SheetUrls : ~falsy(v) /\ hasMatch(v) /\ ~matches(v.s)
    /\ pc' = "done"
    /\ response' = send(400, "Invalid Google Sheet URL format.")
    /\ UNCHANGED <<file, workbook, sheetIdx, allWeeks>>
    /\ UNCHANGED transformerVars
    /\ UNCHANGED serverVars

\* line 83, outside the try: sheetUrl is an array or an object, the call of
\* match throws and the async handler rejects; the handler sends nothing
ProcessUrlThrows ==
    /\ pc = "idle"
    /\ \E v \in SheetUrls : ~falsy(v) /\ ~hasMatch(v)
    /\ pc' = "rejected"
    /\ UNCHANGED handlerVars
    /\ UNCHANGED transformerVars
    /\ UNCHANGED serverVars

\* lines 87-101: the export is requested and the handler awaits it
ProcessExport ==
    /\ pc = "idle"
    /\ \E v \in SheetUrls : ~falsy(v) /\ hasMatch(v) /\ matches(v.s)
    /\ pc' = "await"
    /\ UNCHANGED handlerVars
    /\ UNCHANGED transformerVars
    /\ UNCHANGED serverVars

\* lines 98-104, 132-135: the export or xlsx.read throws
ExportFails ==
    /\ pc = "await"
    /\ pc' = "done"
    /\ response' = send(500, "Error processing Google Sheet: export")
    /\ UNCHANGED <<file, workbook, sheetIdx, allWeeks>>
    /\ UNCHANGED transformerVars
    /\ UNCHANGED serverVars

\* lines 98-107: the export resolves and the workbook is parsed
ExportSucceeds ==
    /\ pc = "await"
    /\ \E wb \in Workbooks : workbook' = wb
    /\ allWeeks' = <<>>
    /\ sheetIdx' = 1
    /\ pc' = "loop"
    /\ UNCHANGED <<response, file>>
    /\ UNCHANGED transformerVars
    /\ UNCHANGED serverVars

\* a call that finds the sessions of the call before it
SheetCallKeepsSessions ==
    /\ pc = "loop"
    /\ sheetIdx <= Len(workbook.SheetNames)
    /\ sheetName' = workbook.SheetNames[sheetIdx]
    /\ rawData' = workbook.Sheets[workbook.SheetNames[sheetIdx]]
    /\ sessionIdx' = 1
    /\ programForSheet' = NoProgram
    /\ pc' = "column"
    /\ UNCHANGED handlerVars
    /\ UNCHANGED <<sessions, session, currentExercise, rowIdx, cellValue, isSet, threw>>
    /\ UNCHANGED serverVars

\* lines 108-111 and 11-14: the next sheet is read and the transformer entered
SheetCall ==
    /\ pc = "loop"
    /\ sheetIdx <= Len(workbook.SheetNames)
    /\ sheetName' = workbook.SheetNames[sheetIdx]
    /\ rawData' = workbook.Sheets[workbook.SheetNames[sheetIdx]]
    /\ sessions' = <<>>
    /\ sessionIdx' = 1
    /\ programForSheet' = NoProgram
    /\ pc' = "column"
    /\ UNCHANGED handlerVars
    /\ UNCHANGED <<session, currentExercise, rowIdx, cellValue, isSet, threw>>
    /\ UNCHANGED serverVars

\* an exception of the transformer reaches the catch of lines 132-135
Throw ==
    /\ threw' = TRUE
    /\ pc' = "done"
    /\ response' = send(500, "Error processing Google Sheet: row.hasOwnProperty is not a function")
    /\ UNCHANGED <<file, workbook, sheetIdx, allWeeks>>
    /\ UNCHANGED <<rawData, sheetName, sessions, sessionIdx, session,
                   currentExercise, rowIdx, cellValue, isSet, programForSheet>>
    /\ UNCHANGED serverVars

\* a skip that leaves an empty session behind
ColumnAbsentPushes ==
    /\ pc = "column"
    /\ sessionIdx <= Len(sessionColumns)
    /\ some(rawData, sessionColumns[sessionIdx]) = "false"
    /\ sessions' = Append(sessions, [session_number |-> sessionColumns[sessionIdx],
                                     exercises |-> <<>>])
    /\ sessionIdx' = sessionIdx + 1
    /\ UNCHANGED <<pc, rawData, sheetName, session, currentExercise,
                   rowIdx, cellValue, isSet, programForSheet, threw>>
    /\ UNCHANGED handlerVars
    /\ UNCHANGED serverVars

\* lines 16-20: no row has the column
ColumnAbsent ==
    /\ pc = "column"
    /\ sessionIdx <= Len(sessionColumns)
    /\ some(rawData, sessionColumns[sessionIdx]) = "false"
    /\ sessionIdx' = sessionIdx + 1
    /\ UNCHANGED <<pc, rawData, sheetName, sessions, session, currentExercise,
                   rowIdx, cellValue, isSet, programForSheet, threw>>
    /\ UNCHANGED handlerVars
    /\ UNCHANGED serverVars

\* a column that goes on with the exercises and the cursor of the one before
ColumnPresentShares ==
    /\ pc = "column"
    /\ sessionIdx <= Len(sessionColumns)
    /\ some(rawData, sessionColumns[sessionIdx]) = "true"
    /\ session' = [session EXCEPT !.session_number = sessionColumns[sessionIdx]]
    /\ rowIdx' = 1
    /\ pc' = "row"
    /\ UNCHANGED <<rawData, sheetName, sessions, sessionIdx, currentExercise, cellValue,
                   isSet, programForSheet, threw>>
    /\ UNCHANGED handlerVars
    /\ UNCHANGED serverVars

\* lines 18, 22-26: some row has the column
ColumnPresent ==
    /\ pc = "column"
    /\ sessionIdx <= Len(sessionColumns)
    /\ some(rawData, sessionColumns[sessionIdx]) = "true"
    /\ session' = [session_number |-> sessionColumns[sessionIdx], exercises |-> <<>>]
    /\ currentExercise' = 0
    /\ rowIdx' = 1
    /\ pc' = "row"
    /\ UNCHANGED <<rawData, sheetName, sessions, sessionIdx, cellValue, isSet,
                   programForSheet, threw>>
    /\ UNCHANGED handlerVars
    /\ UNCHANGED serverVars

\* line 18: row.hasOwnProperty is not a function
ColumnCheckThrows ==
    /\ pc = "column"
    /\ sessionIdx <= Len(sessionColumns)
    /\ some(rawData, sessionColumns[sessionIdx]) = "throw"
    /\ Throw

\* a row without the column that ends the current exercise
RowWithoutKeyResets ==
    /\ pc = "row"
    /\ rowIdx <= Len(rawData)
    /\ ~ownHasOwnProperty(rawData[rowIdx])
    /\ ~hasOwnProperty(rawData[rowIdx], sessionColumns[sessionIdx])
    /\ currentExercise' = 0
    /\ rowIdx' = rowIdx + 1
    /\ UNCHANGED <<pc, rawData, sheetName, sessions, sessionIdx, session,
                   cellValue, isSet, programForSheet, threw>>
    /\ UNCHANGED handlerVars
    /\ UNCHANGED serverVars

\* lines 28-30, 48: the row has no cell in the column
RowWithoutKey ==
    /\ pc = "row"
    /\ rowIdx <= Len(rawData)
    /\ ~ownHasOwnProperty(rawData[rowIdx])
    /\ ~hasOwnProperty(rawData[rowIdx], sessionColumns[sessionIdx])
    /\ rowIdx' = rowIdx + 1
    /\ UNCHANGED <<pc, rawData, sheetName, sessions, sessionIdx, session,
                   currentExercise, cellValue, isSet, programForSheet, threw>>
    /\ UNCHANGED handlerVars
    /\ UNCHANGED serverVars

\* a push that overwrites a last exercise that has no sets
pushExerciseOverEmpty(exercises, title) ==
    IF Len(exercises) > 0 /\ Len(exercises[Len(exercises)].sets) = 0
    THEN [exercises EXCEPT ![Len(exercises)] = [title |-> title, sets |-> <<>>]]
    ELSE Append(exercises, [title |-> title, sets |-> <<>>])

\* lines 39-43: a new exercise with the title is pushed
pushExercise(exercises, title) == Append(exercises, [title |-> title, sets |-> <<>>])

\* a push to the first exercise of the session instead of the current one
pushSetToFirst(exercises, current, value) ==
    [exercises EXCEPT ![1].sets = Append(@, value)]

\* line 46: currentExercise.sets.push(cellValue), through the reference
pushSet(exercises, current, value) ==
    [exercises EXCEPT ![current].sets = Append(@, value)]

\* a title whose trimmed text is written back into the row
RowTitleWritesBack ==
    /\ pc = "row"
    /\ rowIdx <= Len(rawData)
    /\ ~ownHasOwnProperty(rawData[rowIdx])
    /\ hasOwnProperty(rawData[rowIdx], sessionColumns[sessionIdx])
    /\ LET v == cellValueOf(rawData[rowIdx], sessionColumns[sessionIdx]) IN
        /\ ~isSetOf(v)
        /\ cellValue' = v
        /\ isSet' = FALSE
        /\ session' = [session EXCEPT !.exercises = pushExercise(@, v)]
        /\ currentExercise' = Len(session.exercises) + 1
        /\ rawData' = [rawData EXCEPT ![rowIdx] =
                          [@ EXCEPT ![sessionColumns[sessionIdx]] = [s |-> v]]]
    /\ rowIdx' = rowIdx + 1
    /\ UNCHANGED <<pc, sheetName, sessions, sessionIdx, programForSheet, threw>>
    /\ UNCHANGED handlerVars
    /\ UNCHANGED serverVars

\* lines 30-43: a title starts a new exercise
RowTitle ==
    /\ pc = "row"
    /\ rowIdx <= Len(rawData)
    /\ ~ownHasOwnProperty(rawData[rowIdx])
    /\ hasOwnProperty(rawData[rowIdx], sessionColumns[sessionIdx])
    /\ LET v == cellValueOf(rawData[rowIdx], sessionColumns[sessionIdx]) IN
        /\ ~isSetOf(v)
        /\ cellValue' = v
        /\ isSet' = FALSE
        /\ session' = [session EXCEPT !.exercises = pushExercise(@, v)]
        /\ currentExercise' = Len(session.exercises) + 1
    /\ rowIdx' = rowIdx + 1
    /\ UNCHANGED <<pc, rawData, sheetName, sessions, sessionIdx, programForSheet, threw>>
    /\ UNCHANGED handlerVars
    /\ UNCHANGED serverVars

\* lines 30-35, 44-47: a set is pushed to the current exercise
RowSet ==
    /\ pc = "row"
    /\ rowIdx <= Len(rawData)
    /\ ~ownHasOwnProperty(rawData[rowIdx])
    /\ hasOwnProperty(rawData[rowIdx], sessionColumns[sessionIdx])
    /\ currentExercise /= 0
    /\ LET v == cellValueOf(rawData[rowIdx], sessionColumns[sessionIdx]) IN
        /\ isSetOf(v)
        /\ cellValue' = v
        /\ isSet' = TRUE
        /\ session' = [session EXCEPT !.exercises = pushSet(@, currentExercise, v)]
    /\ rowIdx' = rowIdx + 1
    /\ UNCHANGED <<pc, rawData, sheetName, sessions, sessionIdx, currentExercise,
                   programForSheet, threw>>
    /\ UNCHANGED handlerVars
    /\ UNCHANGED serverVars

\* an orphan set that opens an untitled exercise for itself
RowOrphanSetCreates ==
    /\ pc = "row"
    /\ rowIdx <= Len(rawData)
    /\ ~ownHasOwnProperty(rawData[rowIdx])
    /\ hasOwnProperty(rawData[rowIdx], sessionColumns[sessionIdx])
    /\ currentExercise = 0
    /\ LET v == cellValueOf(rawData[rowIdx], sessionColumns[sessionIdx]) IN
        /\ isSetOf(v)
        /\ cellValue' = v
        /\ isSet' = TRUE
        /\ session' = [session EXCEPT !.exercises = <<[title |-> <<>>, sets |-> <<v>>]>>]
    /\ currentExercise' = 1
    /\ rowIdx' = rowIdx + 1
    /\ UNCHANGED <<pc, rawData, sheetName, sessions, sessionIdx, programForSheet, threw>>
    /\ UNCHANGED handlerVars
    /\ UNCHANGED serverVars

\* lines 30-35, 44: a set with no current exercise falls through both branches
RowOrphanSet ==
    /\ pc = "row"
    /\ rowIdx <= Len(rawData)
    /\ ~ownHasOwnProperty(rawData[rowIdx])
    /\ hasOwnProperty(rawData[rowIdx], sessionColumns[sessionIdx])
    /\ currentExercise = 0
    /\ LET v == cellValueOf(rawData[rowIdx], sessionColumns[sessionIdx]) IN
        /\ isSetOf(v)
        /\ cellValue' = v
        /\ isSet' = TRUE
    /\ rowIdx' = rowIdx + 1
    /\ UNCHANGED <<pc, rawData, sheetName, sessions, sessionIdx, session,
                   currentExercise, programForSheet, threw>>
    /\ UNCHANGED handlerVars
    /\ UNCHANGED serverVars

\* line 30: row.hasOwnProperty is not a function
RowThrows ==
    /\ pc = "row"
    /\ rowIdx <= Len(rawData)
    /\ ownHasOwnProperty(rawData[rowIdx])
    /\ Throw

\* a session put in front of the sessions already kept
SessionKeptFront ==
    /\ pc = "row"
    /\ rowIdx > Len(rawData)
    /\ Len(session.exercises) > 0
    /\ sessions' = <<session>> \o sessions
    /\ sessionIdx' = sessionIdx + 1
    /\ pc' = "column"
    /\ UNCHANGED <<rawData, sheetName, session, currentExercise, rowIdx, cellValue,
                   isSet, programForSheet, threw>>
    /\ UNCHANGED handlerVars
    /\ UNCHANGED serverVars

\* lines 51-54: the session has exercises and is pushed
SessionKept ==
    /\ pc = "row"
    /\ rowIdx > Len(rawData)
    /\ Len(session.exercises) > 0
    /\ sessions' = Append(sessions, session)
    /\ sessionIdx' = sessionIdx + 1
    /\ pc' = "column"
    /\ UNCHANGED <<rawData, sheetName, session, currentExercise, rowIdx, cellValue,
                   isSet, programForSheet, threw>>
    /\ UNCHANGED handlerVars
    /\ UNCHANGED serverVars

\* a session without exercises that is pushed all the same
SessionDiscardedKept ==
    /\ pc = "row"
    /\ rowIdx > Len(rawData)
    /\ Len(session.exercises) = 0
    /\ sessions' = Append(sessions, session)
    /\ sessionIdx' = sessionIdx + 1
    /\ pc' = "column"
    /\ UNCHANGED <<rawData, sheetName, session, currentExercise, rowIdx,
                   cellValue, isSet, programForSheet, threw>>
    /\ UNCHANGED handlerVars
    /\ UNCHANGED serverVars

\* lines 52, 55: the session has no exercise and is not pushed
SessionDiscarded ==
    /\ pc = "row"
    /\ rowIdx > Len(rawData)
    /\ Len(session.exercises) = 0
    /\ sessionIdx' = sessionIdx + 1
    /\ pc' = "column"
    /\ UNCHANGED <<rawData, sheetName, sessions, session, currentExercise, rowIdx,
                   cellValue, isSet, programForSheet, threw>>
    /\ UNCHANGED handlerVars
    /\ UNCHANGED serverVars

\* lines 57-63
weekOf(name, sess) == [week_date |-> name, sessions |-> sess]

\* lines 58-63: the week is wrapped and returned
TransformReturn ==
    /\ pc = "column"
    /\ sessionIdx > Len(sessionColumns)
    /\ programForSheet' = [weeks |-> <<weekOf(sheetName, sessions)>>]
    /\ pc' = "push"
    /\ UNCHANGED <<rawData, sheetName, sessions, sessionIdx, session, currentExercise,
                   rowIdx, cellValue, isSet, threw>>
    /\ UNCHANGED handlerVars
    /\ UNCHANGED serverVars

\* a guard that also asks the week to have sessions
pushWeekIfSessions(weeks, program) ==
    IF Len(program.weeks) > 0 /\ Len(program.weeks[1].sessions) > 0
    THEN Append(weeks, program.weeks[1])
    ELSE weeks

\* lines 112-114: programForSheet.weeks && programForSheet.weeks.length > 0
pushWeek(weeks, program) ==
    IF Len(program.weeks) > 0 THEN Append(weeks, program.weeks[1]) ELSE weeks

\* lines 112-115: the week of the sheet is collected
SheetPush ==
    /\ pc = "push"
    /\ allWeeks' = pushWeek(allWeeks, programForSheet)
    /\ sheetIdx' = sheetIdx + 1
    /\ pc' = "loop"
    /\ UNCHANGED <<response, file, workbook>>
    /\ UNCHANGED transformerVars
    /\ UNCHANGED serverVars

\* line 117
finalProgramOf(weeks) == [weeks |-> weeks]

\* lines 117-130: the file is written and the success page sent
WriteFile ==
    /\ pc = "loop"
    /\ sheetIdx > Len(workbook.SheetNames)
    /\ \E jsonContent \in {JSONstringify(finalProgramOf(allWeeks))} :
         \E opens \in BOOLEAN, limit \in WriteLimits :
           \E written \in {writeFileSync(file, jsonContent, opens, limit)} :
             /\ ~written.threw
             /\ file' = written.file
    /\ response' = send(200, "Success!")
    /\ pc' = "done"
    /\ UNCHANGED <<workbook, sheetIdx, allWeeks>>
    /\ UNCHANGED transformerVars
    /\ UNCHANGED serverVars

\* lines 117-120, 132-135: writeFileSync throws and the catch answers
WriteFileThrows ==
    /\ pc = "loop"
    /\ sheetIdx > Len(workbook.SheetNames)
    /\ \E jsonContent \in {JSONstringify(finalProgramOf(allWeeks))} :
         \E opens \in BOOLEAN, limit \in WriteLimits :
           \E written \in {writeFileSync(file, jsonContent, opens, limit)} :
             /\ written.threw
             /\ file' = written.file
    /\ response' = send(500, "Error processing Google Sheet: write")
    /\ pc' = "done"
    /\ UNCHANGED <<workbook, sheetIdx, allWeeks>>
    /\ UNCHANGED transformerVars
    /\ UNCHANGED serverVars

Next ==
    \/ ProcessMissingUrl
    \/ ProcessInvalidUrl
    \/ ProcessUrlThrows
    \/ ProcessExport
    \/ ExportFails
    \/ ExportSucceeds
    \/ SheetCall
    \/ ColumnAbsent
    \/ ColumnPresent
    \/ ColumnCheckThrows
    \/ RowWithoutKey
    \/ RowTitle
    \/ RowSet
    \/ RowOrphanSet
    \/ RowThrows
    \/ SessionKept
    \/ SessionDiscarded
    \/ TransformReturn
    \/ SheetPush
    \/ WriteFile
    \/ WriteFileThrows

Spec == Init /\ [][Next]_vars

----------------------------------------------------------------------------
(* The server under concurrent requests.  A handler is suspended only at    *)
(* the await of lines 98-101: the code before it, and the code from the     *)
(* resolution of the export to the response, run to completion, each as one *)
(* step.  The transformer is here the function of its arguments that lines  *)
(* 11-64 compute.                                                           *)

\* lines 28-49: the walk of one column from the given exercises and cursor
RECURSIVE walkRows(_, _, _, _)
walkRows(rows, key, exercises, current) ==
    IF Len(rows) = 0 THEN [threw |-> FALSE, exercises |-> exercises]
    ELSE IF ownHasOwnProperty(Head(rows)) THEN [threw |-> TRUE, exercises |-> exercises]
    ELSE IF ~hasOwnProperty(Head(rows), key)
         THEN walkRows(Tail(rows), key, exercises, current)
    ELSE LET v == cellValueOf(Head(rows), key) IN
         IF ~isSetOf(v)
         THEN walkRows(Tail(rows), key, pushExercise(exercises, v), Len(exercises) + 1)
         ELSE IF current /= 0
         THEN walkRows(Tail(rows), key, pushSet(exercises, current, v), current)
         ELSE walkRows(Tail(rows), key, exercises, current)

\* lines 16-55: the loop over the session columns from column k on
RECURSIVE transformColumns(_, _, _)
transformColumns(rows, k, sess) ==
    IF k > Len(sessionColumns) THEN [threw |-> FALSE, sessions |-> sess]
    ELSE LET key == sessionColumns[k]
             present == some(rows, key)
             walked == walkRows(rows, key, <<>>, 0)
         IN IF present = "throw" THEN [threw |-> TRUE, sessions |-> sess]
            ELSE IF present = "false" THEN transformColumns(rows, k + 1, sess)
            ELSE IF walked.threw THEN [threw |-> TRUE, sessions |-> sess]
            ELSE IF Len(walked.exercises) > 0
            THEN transformColumns(rows, k + 1,
                     Append(sess, [session_number |-> key, exercises |-> walked.exercises]))
            ELSE transformColumns(rows, k + 1, sess)

\* lines 11-64
transformRawDataToProgram(rows, name) ==
    LET r == transformColumns(rows, 1, <<>>) IN
    IF r.threw THEN [threw |-> TRUE, weeks |-> <<>>]
    ELSE [threw |-> FALSE, weeks |-> <<weekOf(name, r.sessions)>>]

\* lines 108-115: the loop over the sheets from sheet i on
RECURSIVE processSheets(_, _, _)
processSheets(wb, i, weeks) ==
    IF i > Len(wb.SheetNames) THEN [threw |-> FALSE, allWeeks |-> weeks]
    ELSE LET programOfSheet ==
                 transformRawDataToProgram(wb.Sheets[wb.SheetNames[i]], wb.SheetNames[i])
         IN IF programOfSheet.threw THEN [threw |-> TRUE, allWeeks |-> weeks]
            ELSE processSheets(wb, i + 1, pushWeek(weeks, programOfSheet))

\* an array of weeks that lives on from request to request
allWeeksCarried ==
    LET before == {i \in DOMAIN sentOrder : sent[sentOrder[i]].status = 200}
        last == CHOOSE i \in before : \A j \in before : j <= i
    IN IF before = {} THEN <<>>
       ELSE processSheets(fileResponse[sentOrder[last]][1], 1, <<>>).allWeeks

\* line 107: const allWeeks = []
allWeeksAtStart == <<>>

\* the workbooks the exports of concurrent requests deliver
ServerBooks ==
    {Book(<<Name1>>, (Name1 :> <<(sessionColumns[1] :> TitleA), (sessionColumns[1] :> SetA)>>)),
     Book(<<Name2, Name1>>,
          (Name2 :> <<>>) @@ (Name1 :> <<(sessionColumns[3] :> TitleB), (sessionColumns[3] :> SetB)>>)),
     Book(<<Name1, Name2>>,
          (Name1 :> <<(sessionColumns[1] :> TitleA)>>) @@ (Name2 :> <<("hasOwnProperty" :> TitleA)>>))}

requestVars == <<pc, response, workbook, sheetIdx, allWeeks, rawData, sheetName,
                 sessions, sessionIdx, session, currentExercise, rowIdx, cellValue,
                 isSet, programForSheet, threw>>

\* the response of request p is sent and its handler ends
respond(p, code, text) ==
    /\ sent' = [sent EXCEPT ![p] = send(code, text)]
    /\ phase' = [phase EXCEPT ![p] = "done"]
    /\ sentOrder' = Append(sentOrder, p)

\* lines 77-80
ReceiveMissingUrl(p) ==
    /\ writing = "no"
    /\ phase[p] = "new"
    /\ \E v \in SheetUrls : falsy(v)
    /\ respond(p, 400, "Google Sheet URL is required.")
    /\ UNCHANGED <<file, fileResponse, cwd, downloadVars, writing>>
    /\ UNCHANGED requestVars

\* lines 83-86
ReceiveInvalidUrl(p) ==
    /\ writing = "no"
    /\ phase[p] = "new"
    /\ \E v \in SheetUrls : ~falsy(v) /\ hasMatch(v) /\ ~matches(v.s)
    /\ respond(p, 400, "Invalid Google Sheet URL format.")
    /\ UNCHANGED <<file, fileResponse, cwd, downloadVars, writing>>
    /\ UNCHANGED requestVars

\* line 83: sheetUrl has no match method, the handler rejects and sends nothing
ReceiveUrlThrows(p) ==
    /\ writing = "no"
    /\ phase[p] = "new"
    /\ \E v \in SheetUrls : ~falsy(v) /\ ~hasMatch(v)
    /\ phase' = [phase EXCEPT ![p] = "rejected"]
    /\ UNCHANGED <<file, sent, fileResponse, sentOrder, cwd, downloadVars, writing>>
    /\ UNCHANGED requestVars

\* lines 87-101: the export is requested and the handler suspended
ReceiveValidUrl(p) ==
    /\ writing = "no"
    /\ phase[p] = "new"
    /\ \E v \in SheetUrls : ~falsy(v) /\ hasMatch(v) /\ matches(v.s)
    /\ phase' = [phase EXCEPT ![p] = "await"]
    /\ UNCHANGED <<file, sent, fileResponse, sentOrder, cwd, downloadVars, writing>>
    /\ UNCHANGED requestVars

\* lines 98-104, 132-135: the export rejects, or xlsx.read throws
ExportRejects(p) ==
    /\ writing = "no"
    /\ phase[p] = "await"
    /\ respond(p, 500, "Error processing Google Sheet: export")
    /\ UNCHANGED <<file, fileResponse, cwd, downloadVars, writing>>
    /\ UNCHANGED requestVars

\* line 119 for the workbook of a request
jsonContentOf(wb) == JSONstringify(finalProgramOf(processSheets(wb, 1, allWeeksAtStart).allWeeks))

\* line 119 for each of the workbooks an export may deliver
jsonContents == [wb \in ServerBooks |-> jsonContentOf(wb)]

\* the sheets done are written although a later sheet throws
ExportResolvesThrowsWritesPartial(p) ==
    /\ writing = "no"
    /\ phase[p] = "await"
    /\ \E wb \in ServerBooks :
        /\ processSheets(wb, 1, allWeeksAtStart).threw
        /\ fileResponse' = [fileResponse EXCEPT ![p] = <<wb>>]
        /\ file' = <<utf8(jsonContentOf(wb))>>
    /\ respond(p, 500, "Error processing Google Sheet: row.hasOwnProperty is not a function")
    /\ UNCHANGED <<cwd, downloadVars, writing>>
    /\ UNCHANGED requestVars

\* lines 98-115, 132-135: the export resolves and a sheet makes the transformer throw
ExportResolvesThrows(p) ==
    /\ writing = "no"
    /\ phase[p] = "await"
    /\ \E wb \in ServerBooks :
        /\ processSheets(wb, 1, allWeeksAtStart).threw
        /\ fileResponse' = [fileResponse EXCEPT ![p] = <<wb>>]
    /\ respond(p, 500, "Error processing Google Sheet: row.hasOwnProperty is not a function")
    /\ UNCHANGED <<file, cwd, downloadVars, writing>>
    /\ UNCHANGED requestVars

\* line 120, the open of writeFileSync (flag 'w', O_TRUNC): the file exists
\* and holds no byte
openSync == <<<<>>>>

\* lines 98-120: the export resolves, every sheet is transformed and
\* writeFileSync opens the file, which empties it; the main thread stays inside
\* writeFileSync until the text is written, while the threads of the pool run
ExportResolves(p) ==
    /\ writing = "no"
    /\ phase[p] = "await"
    /\ \E wb \in ServerBooks :
        /\ ~processSheets(wb, 1, allWeeksAtStart).threw
        /\ fileResponse' = [fileResponse EXCEPT ![p] = <<wb>>]
    /\ file' = openSync
    /\ phase' = [phase EXCEPT ![p] = "write"]
    /\ writing' = "opened"
    /\ UNCHANGED <<sent, sentOrder, cwd, downloadVars>>
    /\ UNCHANGED requestVars

\* lines 98-120, 132-135: the export resolves, every sheet is transformed,
\* the open of writeFileSync throws and the catch answers
ExportResolvesWriteThrows(p) ==
    /\ writing = "no"
    /\ phase[p] = "await"
    /\ \E wb \in ServerBooks :
        /\ ~processSheets(wb, 1, allWeeksAtStart).threw
        /\ fileResponse' = [fileResponse EXCEPT ![p] = <<wb>>]
        /\ \E limit \in WriteLimits :
             \E written \in {writeFileSync(file, jsonContents[wb], FALSE, limit)} :
               /\ written.threw
               /\ file' = written.file
    /\ respond(p, 500, "Error processing Google Sheet: write")
    /\ UNCHANGED <<cwd, downloadVars, writing>>
    /\ UNCHANGED requestVars

\* lines 120-130: writeFileSync writes the text into the file it has opened
\* and returns, and the handler answers
ExportWrites(p) ==
    /\ phase[p] = "write"
    /\ \E jsonContent \in {jsonContents[fileResponse[p][1]]} :
         \E limit \in WriteLimits :
           \E written \in {writeFileSync(file, jsonContent, TRUE, limit)} :
             /\ ~written.threw
             /\ file' = written.file
    /\ respond(p, 200, "Success!")
    /\ writing' = "no"
    /\ UNCHANGED <<fileResponse, cwd, downloadVars>>
    /\ UNCHANGED requestVars

\* lines 120, 132-135: writeFileSync throws after its open, with the bytes
\* written so far in the file, and the catch answers
ExportWriteThrows(p) ==
    /\ phase[p] = "write"
    /\ \E jsonContent \in {jsonContents[fileResponse[p][1]]} :
         \E limit \in WriteLimits :
           \E written \in {writeFileSync(file, jsonContent, TRUE, limit)} :
             /\ written.threw
             /\ file' = written.file
    /\ respond(p, 500, "Error processing Google Sheet: write")
    /\ writing' = "no"
    /\ UNCHANGED <<fileResponse, cwd, downloadVars>>
    /\ UNCHANGED requestVars

\* an operation of the download (stat, open, read) runs on a thread of the
\* pool: whenever the main thread is free, and once while the main thread is
\* inside writeFileSync, for the next operation is requested by the callback
\* of this one, which waits for the main thread
poolRuns ==
    /\ writing /= "overlapped"
    /\ writing' = IF writing = "opened" THEN "overlapped" ELSE writing

\* the directories the server may run in, given what downloads have shown
Directories == IF cwd = "unobserved" THEN {"dirname", "elsewhere"} ELSE {cwd}

\* what parsed_program.json in the directory of index.js may hold where the
\* server runs in dir, given what downloads have shown: no line writes it
\* where the server runs elsewhere, so that it holds what earlier runs left
LeftInDirname(dir) ==
    IF cwd /= "unobserved" THEN {dirnameFile}
    ELSE IF dir = "elsewhere" THEN FilesAtStart
    ELSE {<<>>}

\* line 140: path.join(__dirname, outputFileName) is the file of line 120 when
\* the server runs in the directory of index.js; elsewhere it is the file of
\* that directory
downloadFile(dir, left) == IF dir = "dirname" THEN file ELSE left

\* lines 138-142: res.download looks the file up; there is none and the
\* callback logs the error
DownloadNoFile ==
    /\ download = "idle"
    /\ poolRuns
    /\ \E dir \in Directories : \E left \in LeftInDirname(dir) :
        /\ Len(downloadFile(dir, left)) = 0
        /\ cwd' = dir
        /\ dirnameFile' = left
    /\ downloaded' = <<[error |-> "ENOENT"]>>
    /\ UNCHANGED <<file, phase, sent, fileResponse, sentOrder, download, statSize, streamed>>
    /\ UNCHANGED requestVars

\* lines 138-142: res.download looks the file up and takes its size for the
\* Content-Length; the file is read later, after returns to the event loop
DownloadStat ==
    /\ download = "idle"
    /\ poolRuns
    /\ \E dir \in Directories : \E left \in LeftInDirname(dir) :
        /\ Len(downloadFile(dir, left)) = 1
        /\ cwd' = dir
        /\ dirnameFile' = left
        /\ statSize' = Len(downloadFile(dir, left)[1])
    /\ download' = "open"
    /\ streamed' = <<>>
    /\ downloaded' = <<>>
    /\ UNCHANGED <<file, phase, sent, fileResponse, sentOrder>>
    /\ UNCHANGED requestVars

Min(a, b) == IF a <= b THEN a ELSE b

\* fs.read of length bytes at a position of a file that holds bytes: the
\* bytes there are, none at the end of the file
read(bytes, position, length) ==
    SubSeq(bytes, position + 1, Min(position + length, Len(bytes)))

\* the bytes one read of the stream may take: 65536, the highWaterMark of
\* fs.createReadStream, or fewer
ReadSizes == {106, 65536}

\* lines 142-146: the open of the stream of res.download fails (EMFILE):
\* nothing is delivered and the callback logs the error
DownloadOpenThrows ==
    /\ download = "open"
    /\ streamed = <<>>
    /\ poolRuns
    /\ downloaded' = <<[error |-> "EMFILE"]>>
    /\ download' = "idle"
    /\ statSize' = 0
    /\ UNCHANGED <<file, phase, sent, fileResponse, sentOrder, cwd, dirnameFile, streamed>>
    /\ UNCHANGED requestVars

\* lines 142-146: one read of the stream of res.download, at the position the
\* stream has reached, of the file as it is now, up to the size the stat
\* found, which is the Content-Length of the response.  The stream ends with a read that reaches that size or finds no
\* byte, and the response has then delivered what was read.
DownloadRead ==
    /\ download = "open"
    /\ poolRuns
    /\ \E n \in ReadSizes :
        \E chunk \in {read(downloadFile(cwd, dirnameFile)[1], Len(streamed),
                          Min(n, statSize - Len(streamed)))} :
            IF Len(chunk) = 0 \/ Len(streamed) + Len(chunk) = statSize
            THEN /\ downloaded' = <<[contentLength |-> statSize, bytes |-> streamed \o chunk]>>
                 /\ download' = "idle"
                 /\ statSize' = 0
                 /\ streamed' = <<>>
            ELSE /\ streamed' = streamed \o chunk
                 /\ UNCHANGED <<download, statSize, downloaded>>
    /\ UNCHANGED <<file, phase, sent, fileResponse, sentOrder, cwd, dirnameFile>>
    /\ UNCHANGED requestVars

NextServer ==
    \/ \E p \in Requests : ReceiveMissingUrl(p)
    \/ \E p \in Requests : ReceiveInvalidUrl(p)
    \/ \E p \in Requests : ReceiveUrlThrows(p)
    \/ \E p \in Requests : ReceiveValidUrl(p)
    \/ \E p \in Requests : ExportRejects(p)
    \/ \E p \in Requests : ExportResolvesThrows(p)
    \/ \E p \in Requests : ExportResolves(p)
    \/ \E p \in Requests : ExportResolvesWriteThrows(p)
    \/ \E p \in Requests : ExportWrites(p)
    \/ \E p \in Requests : ExportWriteThrows(p)
    \/ DownloadNoFile
    \/ DownloadStat
    \/ DownloadOpenThrows
    \/ DownloadRead

SpecServer == Init /\ [][NextServer]_vars

----------------------------------------------------------------------------
(* The vocabulary of the specification, stated without the code's operators *)

\* t is str without the white space at its two ends
IsTrimmedTextOf(t, str) ==
    \E i \in 1..(Len(str) + 1) : \E j \in 0..Len(str) :
        /\ t = SubSeq(str, i, j)
        /\ \A k \in 1..(i - 1) : str[k] \in WhiteSpace
        /\ \A k \in (j + 1)..Len(str) : str[k] \in WhiteSpace
        /\ Len(t) > 0 => (t[1] \notin WhiteSpace /\ t[Len(t)] \notin WhiteSpace)

TrimmedText(cell) ==
    LET str == String(cell) IN
    CHOOSE t \in {SubSeq(str, i, j) : i \in 1..(Len(str) + 1), j \in 0..Len(str)} :
        IsTrimmedTextOf(t, str)

\* SetSpec: the text contains '%' or its first character is a decimal digit
SetSpec(t) == (\E i \in DOMAIN t : t[i] = codeUnit("%")) \/ (Len(t) > 0 /\ t[1] \in Digit)

\* the trimmed texts of the cells of a column, in row order
RECURSIVE ColumnTexts(_, _)
ColumnTexts(rows, key) ==
    IF Len(rows) = 0 THEN <<>>
    ELSE (IF key \in DOMAIN Head(rows) THEN <<TrimmedText(Head(rows)[key])>> ELSE <<>>)
             \o ColumnTexts(Tail(rows), key)

\* the positions of the Title cells of a column
TitleRows(texts) == {i \in DOMAIN texts : ~SetSpec(texts[i])}

NthTitleRow(texts, k) ==
    CHOOSE p \in TitleRows(texts) : Cardinality({q \in TitleRows(texts) : q <= p}) = k

\* the cells after the Title at p and before the next Title or the end
SetsAfter(texts, p) ==
    LET later == {q \in TitleRows(texts) : q > p}
        stop == IF later = {} THEN Len(texts) + 1
                ELSE CHOOSE q \in later : \A r \in later : q <= r
    IN SubSeq(texts, p + 1, stop - 1)

ExpectedExercises(texts) ==
    [k \in 1..Cardinality(TitleRows(texts)) |->
        [title |-> texts[NthTitleRow(texts, k)],
         sets |-> SetsAfter(texts, NthTitleRow(texts, k))]]

RECURSIVE ExpectedSessionsFrom(_, _)
ExpectedSessionsFrom(rows, k) ==
    IF k > Len(sessionColumns) THEN <<>>
    ELSE LET texts == ColumnTexts(rows, sessionColumns[k]) IN
         (IF TitleRows(texts) = {} THEN <<>>
          ELSE <<[session_number |-> sessionColumns[k],
                  exercises |-> ExpectedExercises(texts)]>>)
             \o ExpectedSessionsFrom(rows, k + 1)

ExpectedWeek(rows, name) ==
    [week_date |-> name, sessions |-> ExpectedSessionsFrom(rows, 1)]

RECURSIVE SetCount(_)
SetCount(exercises) ==
    IF Len(exercises) = 0 THEN 0
    ELSE Len(Head(exercises).sets) + SetCount(Tail(exercises))

ColumnLabels == {sessionColumns[k] : k \in DOMAIN sessionColumns}

\* transformRawDataToProgram has returned and its result is held
Returned == pc = "push"

OutSessions == programForSheet.weeks[1].sessions

SessionsOf(key) == {i \in DOMAIN OutSessions : OutSessions[i].session_number = key}

\* the walk has just handled a row that has the column
AfterCell ==
    /\ pc = "row"
    /\ rowIdx > 1
    /\ sessionColumns[sessionIdx] \in DOMAIN rawData[rowIdx - 1]

----------------------------------------------------------------------------
(* The claims *)

\* C1: the cell text is the stringified cell trimmed; it is classified as a
\* set iff it contains '%' or starts with a decimal digit; a Title opens an
\* exercise of that title, a SetSpec opens none, and no cell does both.
C1_Classification ==
    AfterCell =>
        LET raw == String(rawData[rowIdx - 1][sessionColumns[sessionIdx]])
            ex == session.exercises
        IN /\ IsTrimmedTextOf(cellValue, raw)
           /\ isSet <=> SetSpec(cellValue)
           /\ ~isSet =>
                /\ Len(ex) > 0
                /\ currentExercise = Len(ex)
                /\ ex[Len(ex)] = [title |-> cellValue, sets |-> <<>>]
           /\ isSet =>
                \/ currentExercise = 0 /\ Len(ex) = 0
                \/ /\ currentExercise = Len(ex)
                   /\ Len(ex) > 0
                   /\ Len(ex[Len(ex)].sets) > 0
                   /\ ex[Len(ex)].sets[Len(ex[Len(ex)].sets)] = cellValue

C1_Witness ==
    /\ AfterCell
    /\ isSet
    /\ cellValue = js(<<"a", "%">>)
    /\ String(rawData[rowIdx - 1][sessionColumns[sessionIdx]]) /= cellValue
    /\ currentExercise /= 0

\* C2: in the returned week, the sets of the k-th exercise of a session are
\* exactly the cells of the column after its k-th Title and before the next
\* Title or the end of the rows, in row order.
C2_SetsOfExercise ==
    Returned =>
        \A i \in DOMAIN OutSessions :
            LET texts == ColumnTexts(rawData, OutSessions[i].session_number)
                ex == OutSessions[i].exercises
            IN \A k \in DOMAIN ex :
                /\ k <= Cardinality(TitleRows(texts))
                /\ ex[k].sets = SetsAfter(texts, NthTitleRow(texts, k))

C2_Witness ==
    /\ Returned
    /\ \E i \in DOMAIN OutSessions :
        LET ex == OutSessions[i].exercises IN
        /\ Len(ex) = 2
        /\ Len(ex[1].sets) > 0
        /\ Len(ex[2].sets) > 0
        /\ ex[1].sets /= ex[2].sets

OrphanFirst(texts) == Len(texts) > 0 /\ SetSpec(texts[1])

\* C3: a SetSpec before the first Title of its column raises no error, opens
\* no exercise and is in no exercise's sets: the column yields one exercise
\* per Title, and as many set entries as it has SetSpec cells after its first
\* Title.
C3_OrphanDropped ==
    /\ (AfterCell /\ isSet /\ currentExercise = 0) =>
            (~threw /\ Len(session.exercises) = 0)
    /\ Returned =>
        \A key \in ColumnLabels :
            LET texts == ColumnTexts(rawData, key)
                T == TitleRows(texts)
            IN OrphanFirst(texts) =>
                IF T = {} THEN SessionsOf(key) = {}
                ELSE /\ Cardinality(SessionsOf(key)) = 1
                     /\ \A i \in SessionsOf(key) :
                         LET ex == OutSessions[i].exercises IN
                         /\ Len(ex) = Cardinality(T)
                         /\ ex[1].title = texts[NthTitleRow(texts, 1)]
                         /\ SetCount(ex) = Cardinality(
                                {q \in DOMAIN texts : q \notin T /\ q > NthTitleRow(texts, 1)})

C3_Witness ==
    /\ Returned
    /\ Len(rawData) = 2
    /\ OrphanFirst(ColumnTexts(rawData, sessionColumns[1]))
    /\ OutSessions = <<[session_number |-> sessionColumns[1],
                        exercises |-> <<[title |-> js(<<"a">>), sets |-> <<>>]>>]>>

\* C4: in the returned week, the exercises of the session of a column are
\* one per Title cell of the column, in row order, titled with the trimmed
\* text; a Title followed by a Title or by the end has empty sets and is
\* kept.
C4_ExercisePerTitle ==
    Returned =>
        \A key \in ColumnLabels :
            LET texts == ColumnTexts(rawData, key)
                T == TitleRows(texts)
            IN T /= {} =>
                /\ Cardinality(SessionsOf(key)) = 1
                /\ \A i \in SessionsOf(key) :
                    LET ex == OutSessions[i].exercises IN
                    /\ Len(ex) = Cardinality(T)
                    /\ \A k \in DOMAIN ex :
                        LET p == NthTitleRow(texts, k) IN
                        /\ ex[k].title = texts[p]
                        /\ (p = Len(texts) \/ (p + 1) \in T) => ex[k].sets = <<>>

C4_Witness ==
    /\ Returned
    /\ \E i \in DOMAIN OutSessions :
        LET ex == OutSessions[i].exercises IN
        /\ Len(ex) = 3
        /\ ex[1].sets = <<>>
        /\ ex[2].sets /= <<>>
        /\ ex[3].sets = <<>>
        /\ ex[1].title /= ex[2].title

\* C5: the returned week has a session for a column iff the column has a
\* Title cell, and no session of it is without exercises.
C5_SessionIffTitle ==
    Returned =>
        /\ \A key \in ColumnLabels :
            SessionsOf(key) /= {} <=> TitleRows(ColumnTexts(rawData, key)) /= {}
        /\ \A i \in DOMAIN OutSessions : Len(OutSessions[i].exercises) > 0

C5_Witness ==
    /\ Returned
    /\ \E key \in ColumnLabels :
        /\ Len(ColumnTexts(rawData, key)) > 0
        /\ TitleRows(ColumnTexts(rawData, key)) = {}
        /\ SessionsOf(key) = {}
    /\ Len(OutSessions) > 0

ColumnMissing(key) == \A r \in DOMAIN rawData : key \notin DOMAIN rawData[r]

\* C6: a column that no row has gives the returned week no session of that
\* number; when no row has any session column the week has no session.
C6_AbsentColumn ==
    Returned =>
        /\ \A key \in ColumnLabels : ColumnMissing(key) => SessionsOf(key) = {}
        /\ (\A key \in ColumnLabels : ColumnMissing(key)) => Len(OutSessions) = 0

C6_Witness ==
    /\ Returned
    /\ Len(rawData) > 0
    /\ \A key \in ColumnLabels : ColumnMissing(key)
    /\ Len(OutSessions) = 0

WellClassified(weeks) ==
    \A w \in DOMAIN weeks : \A i \in DOMAIN weeks[w].sessions :
        \A k \in DOMAIN weeks[w].sessions[i].exercises :
            LET e == weeks[w].sessions[i].exercises[k] IN
            /\ ~SetSpec(e.title)
            /\ \A n \in DOMAIN e.sets : SetSpec(e.sets[n])

\* C7: in everything the transformer returns and the handler collects for
\* the final program, every title is a Title and every sets entry is a SetSpec.
C7_WellClassified ==
    /\ WellClassified(programForSheet.weeks)
    /\ WellClassified(allWeeks)
    /\ \A k \in DOMAIN session.exercises :
        /\ ~SetSpec(session.exercises[k].title)
        /\ \A n \in DOMAIN session.exercises[k].sets : SetSpec(session.exercises[k].sets[n])

C7_Witness ==
    /\ Returned
    /\ \E i \in DOMAIN OutSessions : \E k \in DOMAIN OutSessions[i].exercises :
        /\ OutSessions[i].exercises[k].title = js(<<"a">>)
        /\ OutSessions[i].exercises[k].sets = <<js(<<"5", "a">>)>>

\* the handler loop has run through the sheets and line 117 is reached
LoopDone ==
    \/ pc = "loop" /\ sheetIdx > Len(workbook.SheetNames)
    \/ pc = "done" /\ response.status = 200
    \/ pc = "done" /\ response = send(500, "Error processing Google Sheet: write")

\* C8: when the handler loop has run through the sheets, the final program
\* has one week per sheet, in sheet order, each the transform of its sheet and
\* dated with the sheet name as it is, and the file written on success is the
\* JSON text of that program in UTF-8; while the loop runs, one week is held per sheet
\* done.
C8_WeekPerSheet ==
    /\ pc = "loop" => Len(allWeeks) = sheetIdx - 1
    /\ LoopDone =>
        LET weeks == finalProgramOf(allWeeks).weeks IN
        /\ Len(weeks) = Len(workbook.SheetNames)
        /\ \A i \in DOMAIN weeks :
            /\ weeks[i].week_date = workbook.SheetNames[i]
            /\ weeks[i] =
                 ExpectedWeek(workbook.Sheets[workbook.SheetNames[i]], workbook.SheetNames[i])
    /\ (pc = "done" /\ response.status = 200) =>
        file = <<utf8(JSONstringify([weeks |-> [i \in DOMAIN workbook.SheetNames |->
                    ExpectedWeek(workbook.Sheets[workbook.SheetNames[i]],
                                 workbook.SheetNames[i])]]))>>

C8_Witness ==
    /\ pc = "done"
    /\ response.status = 200
    /\ Len(workbook.SheetNames) = 2
    /\ allWeeks[1].week_date = Name2
    /\ Len(allWeeks[1].sessions) = 0
    /\ Len(allWeeks[2].sessions) > 0
    /\ Len(file) = 1
    /\ Len(file[1]) > 100

\* C9: whenever a call of transformRawDataToProgram has ended, it has
\* returned exactly one week, dated with the sheet name it was given.
C9_AlwaysOneWeek ==
    (pc = "push" \/ threw) =>
        /\ ~threw
        /\ Len(programForSheet.weeks) = 1
        /\ programForSheet.weeks[1].week_date = sheetName

\* C10: no call of transformRawDataToProgram on rows with string-coercible
\* cells ends in an exception.
C10_NeverThrows == ~threw

\* the rows that have the column, in row order
RECURSIVE RowsWithKey(_, _)
RowsWithKey(rows, key) ==
    IF Len(rows) = 0 THEN <<>>
    ELSE (IF key \in DOMAIN Head(rows) THEN <<Head(rows)>> ELSE <<>>)
             \o RowsWithKey(Tail(rows), key)

\* the rows the walk of the column has handled
RowsWalked == SubSeq(rawData, 1, rowIdx - 1)

\* C11: at every point of the walk of a column, the exercises built and the
\* current exercise are those of the rows walked with the rows that lack the
\* column deleted; the session returned is that of the rows that have the
\* column.
C11_RowsWithoutKeySkipped ==
    /\ pc = "row" =>
        LET key == sessionColumns[sessionIdx]
            kept == ExpectedExercises(ColumnTexts(RowsWithKey(RowsWalked, key), key))
        IN /\ session.exercises = kept
           /\ currentExercise = Len(kept)
    /\ Returned =>
        \A key \in ColumnLabels : \A i \in SessionsOf(key) :
            OutSessions[i].exercises =
                ExpectedExercises(ColumnTexts(RowsWithKey(rawData, key), key))

C11_Witness ==
    /\ pc = "row"
    /\ rowIdx = 4
    /\ sessionColumns[sessionIdx] \in DOMAIN rawData[1]
    /\ sessionColumns[sessionIdx] \notin DOMAIN rawData[2]
    /\ sessionColumns[sessionIdx] \in DOMAIN rawData[3]
    /\ isSet
    /\ session.exercises = <<[title |-> js(<<"a">>), sets |-> <<js(<<"5">>)>>]>>

\* the texts of the column walked so far
TextsWalked == ColumnTexts(RowsWalked, sessionColumns[sessionIdx])

LastTitleRow(texts) == CHOOSE p \in TitleRows(texts) : \A q \in TitleRows(texts) : q <= p

\* C12: a cell whose trimmed text is empty is a Title: it opens an exercise
\* titled "" with no sets that becomes the current one, and while it is the
\* last Title walked, the sets that follow it are its sets.
C12_EmptyTitle ==
    /\ (AfterCell /\ Len(cellValue) = 0) =>
        /\ ~isSet
        /\ currentExercise = Len(session.exercises)
        /\ session.exercises[currentExercise] = [title |-> <<>>, sets |-> <<>>]
    /\ (pc = "row" /\ TitleRows(TextsWalked) /= {}) =>
        LET p == LastTitleRow(TextsWalked) IN
        Len(TextsWalked[p]) = 0 =>
            /\ currentExercise = Len(session.exercises)
            /\ session.exercises[currentExercise] =
                 [title |-> <<>>, sets |-> SubSeq(TextsWalked, p + 1, Len(TextsWalked))]

C12_Witness ==
    /\ pc = "row"
    /\ rowIdx = 5
    /\ sessionColumns[sessionIdx] \in DOMAIN rawData[3]
    /\ String(rawData[3][sessionColumns[sessionIdx]]) = js(<<" ", " ">>)
    /\ session.exercises = <<[title |-> js(<<"a">>), sets |-> <<js(<<"a", "%">>)>>],
                             [title |-> <<>>, sets |-> <<js(<<"5">>)>>]>>

ColumnIndex(key) == CHOOSE k \in DOMAIN sessionColumns : sessionColumns[k] = key

InColumnOrder(sess) ==
    /\ \A i \in DOMAIN sess : sess[i].session_number \in ColumnLabels
    /\ \A i, j \in DOMAIN sess :
        i < j => ColumnIndex(sess[i].session_number) < ColumnIndex(sess[j].session_number)

\* the first row that has the column
FirstRowWith(key) ==
    CHOOSE r \in DOMAIN rawData :
        /\ key \in DOMAIN rawData[r]
        /\ \A q \in DOMAIN rawData : key \in DOMAIN rawData[q] => r <= q

\* C13: the sessions kept, returned and collected for the final program are
\* in the declared order of the session columns, each column at most once.
C13_SessionsInColumnOrder ==
    /\ InColumnOrder(sessions)
    /\ \A w \in DOMAIN programForSheet.weeks : InColumnOrder(programForSheet.weeks[w].sessions)
    /\ \A w \in DOMAIN allWeeks : InColumnOrder(allWeeks[w].sessions)

C13_Witness ==
    /\ Returned
    /\ Len(OutSessions) = 2
    /\ OutSessions[1].session_number = sessionColumns[1]
    /\ OutSessions[2].session_number = sessionColumns[3]
    /\ FirstRowWith(sessionColumns[3]) < FirstRowWith(sessionColumns[1])

\* the cells of a column, in row order: all that a row sequence says about it
RECURSIVE ColumnCells(_, _)
ColumnCells(rows, key) ==
    IF Len(rows) = 0 THEN <<>>
    ELSE (IF key \in DOMAIN Head(rows) THEN <<Head(rows)[key]>> ELSE <<>>)
             \o ColumnCells(Tail(rows), key)

\* the exercises of a column as a function of its cells alone
ExercisesOfCells(cells) == ExpectedExercises([i \in DOMAIN cells |-> TrimmedText(cells[i])])

\* C14: what a column yields is a function of the cells of that column alone:
\* the sessions kept and returned hold, for their column, the exercises of its
\* cells, whatever the other columns hold; a column without a Title cell
\* yields none; each walk starts with no exercise and no current exercise.
C14_ColumnsIndependent ==
    /\ (pc = "row" /\ rowIdx = 1) =>
            (currentExercise = 0 /\ Len(session.exercises) = 0)
    /\ pc \in {"row", "column"} =>
        \A i \in DOMAIN sessions :
            sessions[i].exercises =
                ExercisesOfCells(ColumnCells(rawData, sessions[i].session_number))
    /\ Returned =>
        \A key \in ColumnLabels :
            LET expected == ExercisesOfCells(ColumnCells(rawData, key)) IN
            IF Len(expected) = 0 THEN SessionsOf(key) = {}
            ELSE /\ Cardinality(SessionsOf(key)) = 1
                 /\ \A i \in SessionsOf(key) : OutSessions[i].exercises = expected

C14_Witness ==
    /\ Returned
    /\ Len(rawData) = 2
    /\ {sessionColumns[1], sessionColumns[2]} \subseteq DOMAIN rawData[1]
    /\ sessionColumns[1] \notin DOMAIN rawData[2]
    /\ ~SetSpec(TrimmedText(rawData[1][sessionColumns[1]]))
    /\ SetSpec(TrimmedText(rawData[1][sessionColumns[2]]))
    /\ Len(OutSessions) = 2
    /\ OutSessions[1].exercises = <<[title |-> js(<<"a">>), sets |-> <<>>]>>
    /\ OutSessions[2].session_number = sessionColumns[2]

\* a call of the transformer is under way or has ended
InCall == pc \in {"column", "row", "push"} \/ threw

\* C15: during and after a call of the transformer the rows are those the
\* caller passed: same length, same order, same columns, same cells.
C15_InputUnchanged ==
    InCall =>
        /\ sheetName = workbook.SheetNames[sheetIdx]
        /\ rawData = workbook.Sheets[sheetName]

C15_Witness ==
    /\ Returned
    /\ Len(OutSessions) > 0
    /\ \E r \in DOMAIN rawData : \E key \in ColumnLabels :
        /\ key \in DOMAIN rawData[r]
        /\ String(rawData[r][key]) /= TrimmedText(rawData[r][key])
        /\ ~SetSpec(TrimmedText(rawData[r][key]))
    /\ rawData = workbook.Sheets[sheetName]

SheetRows(i) == workbook.Sheets[workbook.SheetNames[i]]

\* C16: every week returned is the week of its rows and sheet name alone,
\* whatever was transformed before; the weeks collected from earlier calls
\* stay so while later calls run; equal rows give equal sessions.
C16_NoStateBetweenCalls ==
    /\ \A i \in DOMAIN allWeeks :
        allWeeks[i] = ExpectedWeek(SheetRows(i), workbook.SheetNames[i])
    /\ \A i, j \in DOMAIN allWeeks :
        SheetRows(i) = SheetRows(j) => allWeeks[i].sessions = allWeeks[j].sessions
    /\ Returned =>
        /\ programForSheet.weeks[1] = ExpectedWeek(rawData, sheetName)
        /\ \A i \in DOMAIN allWeeks :
            SheetRows(i) = rawData => allWeeks[i].sessions = OutSessions

C16_Witness ==
    /\ pc = "column"
    /\ sheetIdx = 3
    /\ Len(allWeeks) = 2
    /\ SheetRows(1) = SheetRows(3)
    /\ SheetRows(1) /= SheetRows(2)
    /\ Len(allWeeks[1].sessions) > 0
    /\ Len(allWeeks[2].sessions) > 0
    /\ sessions = allWeeks[1].sessions

\* the program of a workbook: the week of every sheet, in sheet order
ExpectedProgram(wb) ==
    [weeks |-> [i \in DOMAIN wb.SheetNames |->
                   ExpectedWeek(wb.Sheets[wb.SheetNames[i]], wb.SheetNames[i])]]

Answered(p) == sent[p].status /= 0

\* the bytes of the JSON text of the complete Program of a workbook, and of
\* that of request p
ExpectedFiles == [wb \in ServerBooks |-> utf8(JSONstringify(ExpectedProgram(wb)))]
FileOf(wb) == ExpectedFiles[wb]
ProgramFile(p) == FileOf(fileResponse[p][1])

\* the response to a request whose write failed
WriteFailure == send(500, "Error processing Google Sheet: write")
WriteFailed(p) == sent[p] = WriteFailure

\* t is the start of the bytes, or all of them
IsPrefix(t, bytes) == Len(t) <= Len(bytes) /\ t = SubSeq(bytes, 1, Len(t))

\* the workbooks all of whose sheets the transformer takes
Transformed == {wb \in ServerBooks : ~processSheets(wb, 1, <<>>).threw}

\* the step in which the writeFileSync of request p opens the file
Opens(p) ==
    /\ phase[p] = "await"
    /\ phase'[p] = "write"
    /\ sent' = sent
    /\ fileResponse'[p][1] \in Transformed
    /\ file' = <<<<>>>>

\* C17 as stated: a request answered with 400 or 500 leaves the file as it
\* was and has not opened it for its write; a 400 comes before any export; the
\* file changes only in the write of a request that is answered with 200, and
\* then holds one week for every sheet of its workbook.
C17_FailureLeavesFile ==
    [][/\ \A p \in Requests :
            (~Answered(p) /\ sent'[p].status \in {400, 500}) =>
                /\ file' = file
                /\ sent'[p].status = 400 => (phase[p] = "new" /\ Len(fileResponse'[p]) = 0)
                /\ sent'[p].status = 500 => phase[p] = "await"
       /\ file' /= file =>
            \E p \in Requests :
                \/ Opens(p)
                \/ /\ phase[p] = "write"
                   /\ sent'[p].status = 200
                   /\ file' = <<FileOf(fileResponse'[p][1])>>]_vars

\* C17, amended: a request that fails before its write leaves the file as it
\* was: a 400 comes before any export, a handler thrown out at line 83 sends
\* and writes nothing, a 500 for the export or for a sheet comes without a
\* write.  The file changes only in the write of a request all of whose
\* sheets are transformed: the open empties it, and the step that ends the
\* request leaves in it the whole text of its program with a 200, or, when the
\* write itself fails, a part of the bytes of that text, from their start,
\* with a 500.  A write that fails at its open leaves the file as it was.
C17_FailureBeforeWriteLeavesFile ==
    [][/\ \A p \in Requests :
            /\ (~Answered(p) /\ sent'[p].status \in {400, 500} /\ sent'[p] /= WriteFailure) =>
                /\ file' = file
                /\ sent'[p].status = 400 => (phase[p] = "new" /\ Len(fileResponse'[p]) = 0)
                /\ sent'[p].status = 500 => phase[p] = "await"
            /\ (phase[p] /= "rejected" /\ phase'[p] = "rejected") =>
                /\ file' = file
                /\ phase[p] = "new"
                /\ sent' = sent
            /\ (~Answered(p) /\ sent'[p] = WriteFailure) =>
                \/ phase[p] = "await" /\ file' = file
                \/ /\ phase[p] = "write"
                   /\ Len(file') = 1
                   /\ IsPrefix(file'[1], FileOf(fileResponse'[p][1]))
       /\ file' /= file =>
            \E p \in Requests :
                \/ Opens(p)
                \/ /\ phase[p] = "write"
                   /\ \/ sent'[p].status = 200 /\ file' = <<FileOf(fileResponse'[p][1])>>
                      \/ sent'[p] = WriteFailure /\ Len(file') = 1
                             /\ IsPrefix(file'[1], FileOf(fileResponse'[p][1]))]_vars

\* a request with a sheet that throws fails after another has succeeded, and
\* the file still holds the program of the first
C17_Witness ==
    /\ Len(sentOrder) = 2
    /\ sent[sentOrder[1]].status = 200
    /\ sent[sentOrder[2]].status = 500
    /\ ~WriteFailed(sentOrder[2])
    /\ Len(fileResponse[sentOrder[2]]) = 1
    /\ Len(fileResponse[sentOrder[2]][1].SheetNames) = 2
    /\ file = <<ProgramFile(sentOrder[1])>>

Succeeded == {i \in DOMAIN sentOrder : sent[sentOrder[i]].status = 200}

LastSucceeded == sentOrder[CHOOSE i \in Succeeded : \A j \in Succeeded : j <= i]

\* the file is absent or the whole program of one request answered with 200,
\* of this run or of an earlier one
WholeProgramOfOne(f) ==
    \/ Len(f) = 0
    \/ f = <<utf8(JSONstringify(EarlierProgram))>>
    \/ \E p \in Requests :
        /\ sent[p].status = 200
        /\ f = <<ProgramFile(p)>>

\* C18 as stated: in every state the file is absent or the complete program
\* of one request answered with 200, that of the request that succeeded last.
C18_FileIsOneProgram ==
    /\ WholeProgramOfOne(file)
    /\ Succeeded /= {} => file = <<ProgramFile(LastSucceeded)>>

\* the requests that reached the write of line 120, in the order of their answers
Wrote == {i \in DOMAIN sentOrder : sent[sentOrder[i]].status = 200 \/ WriteFailed(sentOrder[i])}

\* the requests inside their writeFileSync: one at most
Writing == {p \in Requests : phase[p] = "write"}

\* in every state in which no request is inside its writeFileSync the file is
\* what the server found at its start as long as no request has succeeded, or
\* the complete program of one request answered with 200, or a part, from
\* their start, of the bytes of the text of the program of one request whose
\* write failed; and it is the complete program of the request that succeeded
\* last when no write has failed since.  While a request is inside its
\* writeFileSync, and one at most is, the file is there and holds a part, from
\* their start, of the bytes of the text of the program of that request.
FileIsOfOneRequest ==
    /\ Cardinality(Writing) <= 1
    /\ Writing /= {} <=> writing /= "no"
    /\ \A p \in Writing : Len(file) = 1 /\ IsPrefix(file[1], ProgramFile(p))
    /\ Writing = {} =>
        /\ \/ Succeeded = {} /\ file \in FilesAtStart
           \/ \E p \in Requests : sent[p].status = 200 /\ file = <<ProgramFile(p)>>
           \/ \E p \in Requests :
                WriteFailed(p) /\ Len(file) = 1 /\ IsPrefix(file[1], ProgramFile(p))
        /\ Wrote = {} => file \in FilesAtStart
        /\ (Succeeded /= {} /\ \A i \in Wrote : \E j \in Succeeded : i <= j) =>
                file = <<ProgramFile(LastSucceeded)>>

\* a step leaves the file as it is unless it is a step of the write of one
\* request, which no step of another request comes between: the open, which
\* empties the file, or the end, and then the file is made of the program of
\* that request alone; so the file is as the server found it at its start
\* until the first open
FileChangesAtWrite ==
    /\ file' /= file =>
        \E p \in Requests :
            /\ \A q \in Requests \ {p} : sent'[q] = sent[q] /\ phase'[q] = phase[q]
            /\ \/ Opens(p)
               \/ /\ phase[p] = "write"
                  /\ \/ sent'[p].status = 200 /\ file' = <<FileOf(fileResponse'[p][1])>>
                     \/ sent'[p] = WriteFailure /\ Len(file') = 1
                            /\ IsPrefix(file'[1], FileOf(fileResponse'[p][1]))
    /\ Writing /= {} => (phase' = phase \/ \E p \in Writing : sent'[p].status /= 0)

\* C18, amended: in every state in which no request is inside its
\* writeFileSync the file is what the server found at its start (nothing, or
\* what an earlier run left) as long as no request has succeeded, or the
\* complete program of one request answered with 200, or a part, from their
\* start, of the bytes of the text of the program of one request whose write
\* failed; while a request is inside its writeFileSync, which no step of
\* another request interrupts, the file holds a part, from their start, of
\* the bytes of the text of its program, none of them after the open; it is
\* never made of the weeks of two requests.  It is as the start found it, unchanged by any
\* step, while no request has reached its write, and it is the complete
\* program of the request that succeeded last when no write has failed since.
C18_FileIsOfOneRequest == []FileIsOfOneRequest /\ [][FileChangesAtWrite]_vars

\* a download that followed the success of one request delivers, whole and
\* with its length, the program of another request that succeeded later
C18_Witness ==
    /\ Len(sentOrder) = 2
    /\ sent[sentOrder[1]].status = 200
    /\ sent[sentOrder[2]].status = 200
    /\ cwd = "dirname"
    /\ downloaded = <<[contentLength |-> Len(ProgramFile(sentOrder[2])),
                       bytes |-> ProgramFile(sentOrder[2])]>>
    /\ ProgramFile(sentOrder[2]) /= ProgramFile(sentOrder[1])

\* the function of lines 11-64 and the steps of lines 11-64 agree
TransformerAgrees ==
    /\ Returned => /\ ~transformRawDataToProgram(rawData, sheetName).threw
                   /\ programForSheet.weeks = transformRawDataToProgram(rawData, sheetName).weeks
    /\ threw => transformRawDataToProgram(rawData, sheetName).threw
    /\ (pc = "done" /\ response.status = 200) =>
            file = <<utf8(jsonContentOf(workbook))>>

====
